---- MODULE Spec2Model ----
(***************************************************************************)
(* Model of the JPEG segment framing code of jpeg_decoder:                 *)
(*   src/src/marker.rs   Marker::from_bytes, InvalidMarkerError            *)
(*   src/src/segment.rs  Segment::read_from_start_of_bytes,                *)
(*                       Segment::parse_bytes_to_segments and their errors *)
(* Rust slices are 0-based and half open; sequences here are 1-based, so   *)
(* bytes[a..b] is SubSeq(bytes, a+1, b) and bytes[i] is bytes[i+1].        *)
(***************************************************************************)
EXTENDS Integers, Sequences, FiniteSets, TLC

VARIABLES bytes, pc, parsed_segments, bytes_parsed, segments_parsed,
          first_error, result, last_input, last_result, last_cursor, reads

vars == <<bytes, pc, parsed_segments, bytes_parsed, segments_parsed,
          first_error, result, last_input, last_result, last_cursor, reads>>

(* ---------------------------- bounds ----------------------------------- *)

\* longest buffer of arbitrary bytes
MaxLen == 5

\* longest run of arbitrary bytes after a stream of well-formed segments
MaxShort == 3

\* longest slice handed directly to Marker::from_bytes
MaxMarkerLen == 3

\* byte values the arbitrary bytes are drawn from: small length and payload
\* values, the 0xFF prefix and the codes of StartOfImage and Comment
ByteVals == {0, 1, 2, 3, 216, 254, 255}

\* all values of a u8
Byte == 0 .. 255

\* streams of well-formed segments put in front of arbitrary bytes:
\*   StartOfImage, DefineHuffmanTable of length 3, EndOfImage
\*   StartOfScan of length 2, DefineQuantizationTable of length 4
Prefixes == {<<255, 216, 255, 196, 0, 3, 1, 255, 217>>,
             <<255, 218, 0, 2, 255, 219, 0, 4, 2, 3>>}

Tails(max) == UNION {[1 .. n -> ByteVals] : n \in 0 .. max}

Buffers == Tails(MaxLen) \cup {p \o t : p \in Prefixes, t \in Tails(MaxShort)}

MarkerSlices ==
    UNION {[1 .. n -> Byte] : n \in 0 .. 2}
    \cup UNION {[1 .. n -> ByteVals] : n \in 3 .. MaxMarkerLen}

(* --------------------- Rust values and primitives ---------------------- *)

None == <<"None">>
Some(v) == <<"Some", v>>
IsSome(o) == o[1] = "Some"
Unwrap(o) == o[2]

Ok(v) == [kind |-> "Ok", val |-> v]
Err(e) == [kind |-> "Err", err |-> e]
\* an out-of-range index or slice, or an underflowing usize subtraction
Panic == [kind |-> "Panic"]

\* bytes[a..b] is in range
SliceOk(s, a, b) == a <= b /\ b <= Len(s)
\* bytes[i] is in range
IndexOk(s, i) == i < Len(s)
\* a - b does not underflow in usize
SubOk(a, b) == a >= b

Slice(s, a, b) == SubSeq(s, a + 1, b)
At(s, i) == s[i + 1]

HexDigits == <<"0", "1", "2", "3", "4", "5", "6", "7",
               "8", "9", "a", "b", "c", "d", "e", "f">>
\* format!("{:02x}", b) for a u8
Hex02(b) == HexDigits[(b \div 16) + 1] \o HexDigits[(b % 16) + 1]

(* ------------------------------ marker.rs ------------------------------ *)

Markers == {"DefineHuffmanTable", "StartOfImage", "EndOfImage",
            "StartOfScan", "DefineQuantizationTable", "Comment"}

InvalidMarkerError_new(bs) ==
    LET message ==
            IF Len(bs) > 2 THEN "Too many bytes to be a valid marker."
            ELSE IF Len(bs) < 2 THEN "Too few bytes to be a valid marker."
            ELSE Hex02(At(bs, 0)) \o " " \o Hex02(At(bs, 1))
                 \o " is not a valid marker."
    IN [bytes |-> bs, message |-> message]

\* faulty variant: the codes of StartOfScan and DefineQuantizationTable both give
\* StartOfScan
Marker_from_bytes_duplicate(bs) ==
    IF Len(bs) # 2 THEN Err(InvalidMarkerError_new(bs))
    ELSE IF bs = <<255, 196>> THEN Ok("DefineHuffmanTable")
    ELSE IF bs = <<255, 216>> THEN Ok("StartOfImage")
    ELSE IF bs = <<255, 217>> THEN Ok("EndOfImage")
    ELSE IF bs = <<255, 218>> THEN Ok("StartOfScan")
    ELSE IF bs = <<255, 219>> THEN Ok("StartOfScan")
    ELSE IF bs = <<255, 254>> THEN Ok("Comment")
    ELSE Err(InvalidMarkerError_new(bs))

Marker_from_bytes(bs) ==
    IF Len(bs) # 2 THEN Err(InvalidMarkerError_new(bs))
    ELSE IF bs = <<255, 196>> THEN Ok("DefineHuffmanTable")
    ELSE IF bs = <<255, 216>> THEN Ok("StartOfImage")
    ELSE IF bs = <<255, 217>> THEN Ok("EndOfImage")
    ELSE IF bs = <<255, 218>> THEN Ok("StartOfScan")
    ELSE IF bs = <<255, 219>> THEN Ok("DefineQuantizationTable")
    ELSE IF bs = <<255, 254>> THEN Ok("Comment")
    ELSE Err(InvalidMarkerError_new(bs))

(* ------------------------------ segment.rs ----------------------------- *)

Segment(marker, data) == [marker |-> marker, data |-> data]

too_few_bytes(n) ==
    IF n = 0
    THEN [message |-> "Attempted to read segment from an empty byte slice.",
          underlying_error |-> None]
    ELSE [message |-> "Attempted to read segment from a slice containing only "
                      \o ToString(n) \o " bytes.",
          underlying_error |-> None]

invalid_marker(error) ==
    [message |-> "Segment began with an invalid marker.",
     underlying_error |-> Some(error)]

no_length_bytes ==
    [message |-> "Marker requires length bytes, but have fewer than two byes left in the input.",
     underlying_error |-> None]

length_less_than_two(n) ==
    [message |-> "Length of segment, " \o ToString(n)
                 \o ", was less than two. This doesn't even cover the two data bytes!",
     underlying_error |-> None]

too_few_data_bytes(n_expected, n_actual) ==
    [message |-> "Segment wants " \o ToString(n_expected)
                 \o " data bytes, but there are only " \o ToString(n_actual)
                 \o " bytes remaining in the slice.",
     underlying_error |-> None]

\* faulty variant: only the empty slice is rejected before the marker is sliced
is_too_short_for_marker_one(bytes_len) == bytes_len < 1

\* segment.rs:14
is_too_short_for_marker(bytes_len) == bytes_len < 2

\* faulty variant: EndOfImage is taken to carry a length
has_no_length_or_data_soi_only(marker) == marker = "StartOfImage"

\* segment.rs:21
has_no_length_or_data(marker) ==
    marker = "StartOfImage" \/ marker = "EndOfImage"

\* faulty variant: three bytes are taken to hold the length field
is_too_short_for_length_three(bytes_len) == bytes_len < 3

\* segment.rs:25
is_too_short_for_length(bytes_len) == bytes_len < 4

\* segment.rs:28, the caller has checked both indices
read_length(bs) == At(bs, 2) * 256 + At(bs, 3)

\* faulty variant: the length 1 is accepted
is_length_too_small_one(length) == length < 1

\* segment.rs:29
is_length_too_small(length) == length < 2

\* faulty variant: the bytes remaining are counted from the length field
check_data_bytes_from_length(bytes_len, length) ==
    IF bytes_len < length + 2
    THEN IF SubOk(length, 2) /\ SubOk(bytes_len, 2)
         THEN Err(too_few_data_bytes(length - 2, bytes_len - 2))
         ELSE Panic
    ELSE Ok(length)

\* segment.rs:31-32
check_data_bytes(bytes_len, length) ==
    IF bytes_len < length + 2
    THEN IF SubOk(length, 2) /\ SubOk(bytes_len, 4)
         THEN Err(too_few_data_bytes(length - 2, bytes_len - 4))
         ELSE Panic
    ELSE Ok(length)

\* faulty variant: the payload is taken to be as long as the length field says
read_data_whole_length(bs, marker, length) ==
    IF SliceOk(bs, 4, 4 + length)
    THEN Ok(Segment(marker, Some(Slice(bs, 4, 4 + length))))
    ELSE Panic

\* segment.rs:34
read_data(bs, marker, length) ==
    IF SubOk(4 + length, 2) /\ SliceOk(bs, 4, 4 + length - 2)
    THEN Ok(Segment(marker, Some(Slice(bs, 4, 4 + length - 2))))
    ELSE Panic

read_from_start_of_bytes(bs) ==
    LET bytes_len == Len(bs) IN
    IF is_too_short_for_marker(bytes_len) THEN Err(too_few_bytes(bytes_len))
    ELSE IF ~SliceOk(bs, 0, 2) THEN Panic
    ELSE
      LET marker == Marker_from_bytes(Slice(bs, 0, 2)) IN
      IF marker.kind = "Err" THEN Err(invalid_marker(marker.err))
      ELSE IF has_no_length_or_data(marker.val)
      THEN Ok(Segment(marker.val, None))
      ELSE IF is_too_short_for_length(bytes_len) THEN Err(no_length_bytes)
      ELSE IF ~(IndexOk(bs, 2) /\ IndexOk(bs, 3)) THEN Panic
      ELSE
        LET length == read_length(bs) IN
        IF is_length_too_small(length) THEN Err(length_less_than_two(length))
        ELSE
          LET checked == check_data_bytes(bytes_len, length) IN
          IF checked.kind # "Ok" THEN checked
          ELSE read_data(bs, marker.val, length)

\* faulty variant: the failed segment is counted among the parsed ones
ParseToSegmentsError_new_counts_failed(bp, sp, boxed_error) ==
    [message |-> "After successfully parsing " \o ToString(bp)
                 \o " bytes into " \o ToString(sp + 1)
                 \o " segments, got error: " \o boxed_error.message,
     bytes_parsed |-> bp,
     segments_parsed |-> sp + 1,
     underlying_error |-> boxed_error]

ParseToSegmentsError_new(bp, sp, boxed_error) ==
    [message |-> "After successfully parsing " \o ToString(bp)
                 \o " bytes into " \o ToString(sp)
                 \o " segments, got error: " \o boxed_error.message,
     bytes_parsed |-> bp,
     segments_parsed |-> sp,
     underlying_error |-> boxed_error]

\* faulty variant: the two length bytes are left out of the size of a segment
segment_length_without_length_bytes(segment) ==
    IF IsSome(segment.data) THEN Len(Unwrap(segment.data)) + 2 ELSE 2

\* segment.rs:53-56
segment_length(segment) ==
    IF IsSome(segment.data) THEN Len(Unwrap(segment.data)) + 4 ELSE 2

\* faulty variant: the loop stops one byte before the end of the buffer
loop_condition_stops_early ==
    bytes_parsed + 1 < Len(bytes) /\ first_error = None

\* faulty variant: the loop goes on after a failed read
loop_condition_ignores_error == bytes_parsed < Len(bytes)

\* segment.rs:50
loop_condition == bytes_parsed < Len(bytes) /\ first_error = None

(* ------------- the three public functions, called by a client --------- *)

InitLocals ==
    /\ parsed_segments = <<>>
    /\ bytes_parsed = 0
    /\ segments_parsed = 0
    /\ first_error = None
    /\ result = None
    /\ last_input = None
    /\ last_result = None
    /\ last_cursor = 0
    /\ reads = 0

\* a client calls read_from_start_of_bytes or parse_bytes_to_segments
Init ==
    /\ \/ pc = "Scanning" /\ bytes \in Buffers
       \/ pc = "ReadCall" /\ bytes \in Buffers
    /\ InitLocals

\* a client calls Marker::from_bytes
InitMarker ==
    /\ pc = "MarkerCall" /\ bytes \in MarkerSlices
    /\ InitLocals

\* Marker::from_bytes(bytes)
MarkerCall ==
    /\ pc = "MarkerCall"
    /\ last_input' = Some(bytes)
    /\ last_result' = Some(Marker_from_bytes(bytes))
    /\ pc' = "MarkerReturned"
    /\ UNCHANGED <<bytes, parsed_segments, bytes_parsed, segments_parsed,
                   first_error, result, last_cursor, reads>>

\* Segment::read_from_start_of_bytes(bytes)
ReadCall ==
    /\ pc = "ReadCall"
    /\ LET r == read_from_start_of_bytes(bytes)
       IN /\ last_input' = Some(bytes)
          /\ last_result' = Some(r)
          /\ pc' = IF r.kind = "Panic" THEN "Panicked" ELSE "ReadReturned"
    /\ reads' = reads + 1
    /\ UNCHANGED <<bytes, parsed_segments, bytes_parsed, segments_parsed,
                   first_error, result, last_cursor>>

\* Segment::parse_bytes_to_segments(bytes):
\* one pass through the body of the while loop, segment.rs:51-64
LoopBody ==
    /\ pc = "Scanning"
    /\ loop_condition
    /\ IF ~SliceOk(bytes, bytes_parsed, Len(bytes))
       THEN /\ pc' = "Panicked"
            /\ UNCHANGED <<parsed_segments, bytes_parsed, segments_parsed,
                           first_error, last_input, last_result,
                           last_cursor, reads>>
       ELSE
         LET input == Slice(bytes, bytes_parsed, Len(bytes))
             r == read_from_start_of_bytes(input)
         IN /\ last_input' = Some(input)
            /\ last_result' = Some(r)
            /\ last_cursor' = bytes_parsed
            /\ reads' = reads + 1
            /\ IF r.kind = "Ok"
               THEN /\ parsed_segments' = Append(parsed_segments, r.val)
                    /\ bytes_parsed' = bytes_parsed + segment_length(r.val)
                    /\ segments_parsed' = segments_parsed + 1
                    /\ UNCHANGED <<first_error, pc>>
               ELSE IF r.kind = "Err"
               THEN /\ first_error' =
                          Some(ParseToSegmentsError_new(bytes_parsed,
                                                        segments_parsed, r.err))
                    /\ UNCHANGED <<parsed_segments, bytes_parsed,
                                   segments_parsed, pc>>
               ELSE /\ pc' = "Panicked"
                    /\ UNCHANGED <<parsed_segments, bytes_parsed,
                                   segments_parsed, first_error>>
    /\ UNCHANGED <<bytes, result>>

\* the loop condition fails and the function returns, segment.rs:66-69
LoopExit ==
    /\ pc = "Scanning"
    /\ ~loop_condition
    /\ IF first_error = None
       THEN /\ result' = Some(Ok(parsed_segments))
            /\ pc' = "Done"
       ELSE /\ result' = Some(Err(Unwrap(first_error)))
            /\ pc' = "Failed"
    /\ UNCHANGED <<bytes, parsed_segments, bytes_parsed, segments_parsed,
                   first_error, last_input, last_result, last_cursor, reads>>

Next == ReadCall \/ LoopBody \/ LoopExit

Spec == Init /\ [][Next]_vars

\* a client calls parse_bytes_to_segments, which runs to its return: the
\* function is synchronous and single-threaded, so a step that can be taken
\* is taken
InitParse ==
    /\ pc = "Scanning" /\ bytes \in Buffers
    /\ InitLocals

NextParse == LoopBody \/ LoopExit

SpecParse ==
    InitParse /\ [][NextParse]_vars /\ WF_vars(LoopBody) /\ WF_vars(LoopExit)

NextMarker == MarkerCall

SpecMarker == InitMarker /\ [][NextMarker]_vars

(* ---------------- the segment format, as the claims state it ----------- *)

\* the two-byte code of each marker
MarkerCode ==
    [m \in Markers |->
        CASE m = "DefineHuffmanTable" -> <<255, 196>>
          [] m = "StartOfImage" -> <<255, 216>>
          [] m = "EndOfImage" -> <<255, 217>>
          [] m = "StartOfScan" -> <<255, 218>>
          [] m = "DefineQuantizationTable" -> <<255, 219>>
          [] m = "Comment" -> <<255, 254>>]

KnownPairs == {MarkerCode[m] : m \in Markers}

MarkerOnly == {"StartOfImage", "EndOfImage"}
LengthDelimited == Markers \ MarkerOnly

\* the big-endian length field of a buffer of at least four bytes
LengthField(buf) == 256 * buf[3] + buf[4]

\* buf starts with the code of a marker of the set ms
StartsWith(buf, ms) ==
    Len(buf) >= 2 /\ \E m \in ms : SubSeq(buf, 1, 2) = MarkerCode[m]

MarkerAt(buf) == CHOOSE m \in Markers : SubSeq(buf, 1, 2) = MarkerCode[m]

\* rec is exactly one well-formed segment: a bare marker, or a marker, a
\* length L >= 2 and L - 2 payload bytes
IsRecord(rec) ==
    \/ Len(rec) = 2 /\ StartsWith(rec, MarkerOnly)
    \/ /\ Len(rec) >= 4
       /\ StartsWith(rec, LengthDelimited)
       /\ LengthField(rec) >= 2
       /\ Len(rec) = 2 + LengthField(rec)

\* the size of a well-formed segment: 2, or 2 + L
RecordSize(rec) ==
    IF MarkerAt(rec) \in MarkerOnly THEN 2 ELSE 2 + LengthField(rec)

\* the segment a well-formed record stands for
RecordSegment(rec) ==
    IF MarkerAt(rec) \in MarkerOnly
    THEN [marker |-> MarkerAt(rec), data |-> None]
    ELSE [marker |-> MarkerAt(rec),
          data |-> Some(SubSeq(rec, 5, Len(rec)))]

\* every way of cutting buf into well-formed segments
RECURSIVE Splits(_)
Splits(buf) ==
    IF buf = <<>> THEN {<<>>}
    ELSE UNION {{<<SubSeq(buf, 1, n)>> \o t :
                    t \in Splits(SubSeq(buf, n + 1, Len(buf)))} :
                n \in {k \in 2 .. Len(buf) : IsRecord(SubSeq(buf, 1, k))}}

RECURSIVE SumSizes(_)
SumSizes(recs) ==
    IF recs = <<>> THEN 0 ELSE RecordSize(Head(recs)) + SumSizes(Tail(recs))

Returned == pc \in {"Done", "Failed", "Panicked"}
InParse == pc \in {"Scanning", "Done", "Failed"}
\* read_from_start_of_bytes has been applied to last_input
AfterRead ==
    /\ pc \in {"Scanning", "Done", "Failed", "ReadReturned", "Panicked"}
    /\ IsSome(last_input)

IsOk(r, v) == r.kind = "Ok" /\ r.val = v
IsErr(r, e) == r.kind = "Err" /\ r.err = e

(* ------------------------------- claims -------------------------------- *)

\* C1: when the buffer is the exact concatenation of N >= 0 well-formed
\* segments, parse_bytes_to_segments returns Ok with exactly those N segments
\* in order, each with the marker and payload of its record, and the cursor
\* ends at the buffer length.
C1_ConcatenationParses ==
    Returned =>
      \A recs \in Splits(bytes) :
         /\ pc = "Done"
         /\ IsOk(Unwrap(result),
                 [i \in 1 .. Len(recs) |-> RecordSegment(recs[i])])
         /\ bytes_parsed = Len(bytes)

\* C1 witness: a stream of four segments, one with a payload, was parsed
C1_Witness ==
    /\ pc = "Done"
    /\ Splits(bytes) # {}
    /\ Len(parsed_segments) = 4
    /\ \E i \in 1 .. 4 : parsed_segments[i].data = Some(<<1>>)

\* C2: when the buffer is k well-formed segments followed by at least one byte
\* on which read_from_start_of_bytes fails, parse_bytes_to_segments returns an
\* error whose bytes_parsed is the sum of the sizes of the k segments, whose
\* segments_parsed is k and whose cause is the error of that failed read.
C2_ErrorAfterValidPrefix ==
    Returned =>
      \A p \in 0 .. Len(bytes) - 1 :
        \A recs \in Splits(SubSeq(bytes, 1, p)) :
          LET r == read_from_start_of_bytes(SubSeq(bytes, p + 1, Len(bytes)))
          IN r.kind = "Err" =>
               /\ pc = "Failed"
               /\ Unwrap(result).kind = "Err"
               /\ Unwrap(result).err.bytes_parsed = SumSizes(recs)
               /\ Unwrap(result).err.segments_parsed = Len(recs)
               /\ Unwrap(result).err.underlying_error = r.err

\* C2 witness: three segments were parsed and the read at offset 9 failed
C2_Witness ==
    /\ pc = "Failed"
    /\ Unwrap(result).err.segments_parsed = 3
    /\ Unwrap(result).err.bytes_parsed = 9
    /\ Len(bytes) > 9

\* C3: no slice, index or subtraction of read_from_start_of_bytes or of
\* parse_bytes_to_segments goes out of range, for any buffer: every read ends
\* in Ok or Err and every parse ends in Ok or Err.
C3_NoFault ==
    /\ pc # "Panicked"
    /\ IsSome(last_result) => Unwrap(last_result).kind \in {"Ok", "Err"}
    /\ pc \in {"Done", "Failed"} => Unwrap(result).kind \in {"Ok", "Err"}

\* C3 witness: a parse has ended on a segment cut off inside its length field
C3_Witness ==
    /\ pc = "Failed"
    /\ last_cursor > 0
    /\ Len(Unwrap(last_input)) = 3
    /\ StartsWith(Unwrap(last_input), LengthDelimited)

\* C4: a buffer that starts with 0xFF 0xD8 or 0xFF 0xD9 reads as that marker
\* with no payload whatever follows, and the parser moves its cursor by 2.
C4_MarkerOnlySegment ==
    AfterRead =>
      LET inp == Unwrap(last_input)
          r == Unwrap(last_result)
      IN /\ (Len(inp) >= 2 /\ SubSeq(inp, 1, 2) = <<255, 216>>) =>
               /\ IsOk(r, [marker |-> "StartOfImage", data |-> None])
               /\ InParse => bytes_parsed = last_cursor + 2
         /\ (Len(inp) >= 2 /\ SubSeq(inp, 1, 2) = <<255, 217>>) =>
               /\ IsOk(r, [marker |-> "EndOfImage", data |-> None])
               /\ InParse => bytes_parsed = last_cursor + 2

\* C4 witness: the parser has read an EndOfImage that has bytes after it
C4_Witness ==
    /\ InParse
    /\ IsSome(last_input)
    /\ Len(Unwrap(last_input)) > 2
    /\ SubSeq(Unwrap(last_input), 1, 2) = <<255, 217>>
    /\ bytes_parsed = last_cursor + 2

\* buf starts with a length-delimited marker and a length field
HasLengthField(buf) == Len(buf) >= 4 /\ StartsWith(buf, LengthDelimited)

\* C5: a buffer that starts with a length-delimited marker and a length
\* L >= 2, and holds at least L + 2 bytes, reads as that marker with payload
\* buffer[4 .. 2+L] of L - 2 bytes, whatever follows index 2+L, and the parser
\* moves its cursor by 2 + L.
C5_LengthDelimitedSegment ==
    AfterRead =>
      LET inp == Unwrap(last_input)
          r == Unwrap(last_result)
      IN (/\ HasLengthField(inp)
          /\ LengthField(inp) >= 2
          /\ Len(inp) >= LengthField(inp) + 2) =>
            /\ IsOk(r, [marker |-> MarkerAt(inp),
                        data |-> Some(SubSeq(inp, 5, 2 + LengthField(inp)))])
            /\ Len(Unwrap(r.val.data)) = LengthField(inp) - 2
            /\ InParse => bytes_parsed = last_cursor + 2 + LengthField(inp)

\* C5 witness: the parser has read a segment with a payload that has bytes
\* after it
C5_Witness ==
    /\ InParse
    /\ IsSome(last_input)
    /\ HasLengthField(Unwrap(last_input))
    /\ LengthField(Unwrap(last_input)) = 4
    /\ Len(Unwrap(last_input)) > 6
    /\ Unwrap(last_result).kind = "Ok"

\* C6: a buffer of n >= 4 bytes that starts with a length-delimited marker and
\* a length L >= 2 with n < L + 2 fails with the too-few-data-bytes error of
\* expected L - 2 and actual n - 4.
C6_TooFewDataBytes ==
    AfterRead =>
      LET inp == Unwrap(last_input)
          r == Unwrap(last_result)
      IN (/\ HasLengthField(inp)
          /\ LengthField(inp) >= 2
          /\ Len(inp) < LengthField(inp) + 2) =>
            IsErr(r, too_few_data_bytes(LengthField(inp) - 2, Len(inp) - 4))

\* C6 witness: a read wanted one payload byte more than the buffer has
C6_Witness ==
    /\ AfterRead
    /\ HasLengthField(Unwrap(last_input))
    /\ LengthField(Unwrap(last_input)) = 3
    /\ Len(Unwrap(last_input)) = 4
    /\ Unwrap(last_result).kind = "Err"

\* C7: a buffer of at least 4 bytes that starts with a length-delimited marker
\* and a length of 0 or 1 fails with the length-less-than-two error of that
\* length, however many bytes follow.
C7_LengthLessThanTwo ==
    AfterRead =>
      LET inp == Unwrap(last_input)
          r == Unwrap(last_result)
      IN (HasLengthField(inp) /\ LengthField(inp) \in {0, 1}) =>
            IsErr(r, length_less_than_two(LengthField(inp)))

\* C7 witness: a read met the length 1 with a byte after the length field
C7_Witness ==
    /\ AfterRead
    /\ HasLengthField(Unwrap(last_input))
    /\ LengthField(Unwrap(last_input)) = 1
    /\ Len(Unwrap(last_input)) = 5
    /\ Unwrap(last_result).kind = "Err"

\* C8: a buffer of n < 2 bytes fails with the too-few-bytes error of n and no
\* marker error; a buffer of 2 or 3 bytes that starts with a length-delimited
\* marker fails with the no-length-bytes error.
C8_ShortBuffer ==
    AfterRead =>
      LET inp == Unwrap(last_input)
          r == Unwrap(last_result)
      IN /\ Len(inp) < 2 =>
               /\ IsErr(r, too_few_bytes(Len(inp)))
               /\ r.err.underlying_error = None
         /\ (Len(inp) \in {2, 3} /\ StartsWith(inp, LengthDelimited)) =>
               IsErr(r, no_length_bytes)

\* C8 witness: read_from_start_of_bytes was called on the empty buffer
C8_Witness ==
    /\ pc = "ReadReturned"
    /\ last_input = Some(<<>>)
    /\ Unwrap(last_result).kind = "Err"

\* C9: Marker::from_bytes gives the too-few-bytes error for a slice shorter
\* than 2 bytes and the too-many-bytes error for a longer one; a 2-byte slice
\* gives a marker exactly when it is one of the six known pairs, and then the
\* marker of that pair, so that distinct pairs give distinct markers and every
\* marker has exactly one pair; any other 2-byte slice gives the unknown-code
\* error with those two bytes.
C9_MarkerClassification ==
    pc = "MarkerReturned" =>
      LET r == Unwrap(last_result)
      IN /\ Len(bytes) < 2 =>
               /\ r.kind = "Err"
               /\ r.err.message = "Too few bytes to be a valid marker."
         /\ Len(bytes) > 2 =>
               /\ r.kind = "Err"
               /\ r.err.message = "Too many bytes to be a valid marker."
         /\ Len(bytes) = 2 =>
               /\ r.kind = "Ok" <=> bytes \in KnownPairs
               /\ r.kind = "Ok" =>
                    /\ r.val \in Markers
                    /\ MarkerCode[r.val] = bytes
                    /\ \A other \in KnownPairs \ {bytes} :
                          Marker_from_bytes(other).val # r.val
               /\ r.kind # "Ok" =>
                    /\ r.kind = "Err"
                    /\ r.err.bytes = bytes
                    /\ r.err.message = Hex02(bytes[1]) \o " " \o Hex02(bytes[2])
                                       \o " is not a valid marker."
         /\ \A m \in Markers :
               Cardinality({q \in KnownPairs :
                               IsOk(Marker_from_bytes(q), m)}) = 1

\* C9 witness: from_bytes has decoded the pair of DefineQuantizationTable
C9_Witness ==
    /\ pc = "MarkerReturned"
    /\ bytes = <<255, 219>>
    /\ Unwrap(last_result).kind = "Ok"

\* the size of a parsed segment: 2 without a payload, else 2 + L where the
\* length L counts its own two bytes and the payload
RECURSIVE SumSegmentSizes(_)
SumSegmentSizes(segs) ==
    IF segs = <<>> THEN 0
    ELSE (IF Head(segs).data = None THEN 2
          ELSE 2 + (2 + Len(Unwrap(Head(segs).data))))
         + SumSegmentSizes(Tail(segs))

\* C10: during a parse the cursor stays within 0 .. buffer length and equals
\* the sum of the sizes of the accumulated segments, segments_parsed is their
\* number, and Ok is returned only with the cursor at the buffer length.
C10_CursorInvariant ==
    InParse =>
      /\ 0 <= bytes_parsed /\ bytes_parsed <= Len(bytes)
      /\ bytes_parsed = SumSegmentSizes(parsed_segments)
      /\ segments_parsed = Len(parsed_segments)
      /\ (pc = "Done" \/ (IsSome(result) /\ Unwrap(result).kind = "Ok")) =>
            bytes_parsed = Len(bytes)

\* C10 witness: a parse has failed with the cursor inside the buffer after
\* accumulating segments
C10_Witness ==
    /\ pc = "Failed"
    /\ segments_parsed = 2
    /\ 0 < bytes_parsed /\ bytes_parsed < Len(bytes)

\* the most reads a parse of the buffer can make: ceil(len / 2)
MaxReads == (Len(bytes) + 1) \div 2

\* C11: every parse reaches Done or Failed; a successful read moves the
\* cursor by at least 2, so that at most ceil(len / 2) reads are made; after
\* the first failed read the only step is the return of that error, with no
\* further read and the cursor where it was; Done and Failed have no step.
C11_Terminates ==
    /\ <>(pc \in {"Done", "Failed"})
    /\ [](reads <= MaxReads)
    /\ [][(reads' = reads + 1 /\ first_error' = None)
             => bytes_parsed' >= bytes_parsed + 2]_vars
    /\ [][first_error # None
             => /\ pc' = "Failed"
                /\ reads' = reads
                /\ bytes_parsed' = bytes_parsed
                /\ parsed_segments' = parsed_segments
                /\ result' = Some(Err(Unwrap(first_error)))]_vars
    /\ [][pc = "Scanning"]_vars

\* C11 witness: a parse has failed on its last possible read, after two
\* successful ones
C11_Witness ==
    /\ pc = "Failed"
    /\ segments_parsed = 2
    /\ reads = 3
    /\ reads = MaxReads

====
